---- MODULE Spec2Model ----
(***************************************************************************)
(* mdr: a live-preview server for one markdown file (src/main.rs).         *)
(*                                                                         *)
(* The model has four parts:                                               *)
(*   - the watched file (the environment: writes, deletions);              *)
(*   - main: argument validation, spawn of the detector, start of serving; *)
(*   - the change detector: check_file / render_markdown, one step per     *)
(*     system call or channel operation;                                   *)
(*   - the connection handlers: handle_websocket, one step per await point *)
(*     (changed, borrow+clone, send).                                      *)
(* The tokio watch channel is a value cell with a version counter; every   *)
(* receiver keeps the version it has last seen.                            *)
(***************************************************************************)
EXTENDS Naturals, Sequences, FiniteSets

\* ------------------------------------------------------------------ bounds
\* Number of connection slots (clients that may ever connect).
MaxHandlers == 2
\* Number of modifications (writes, deletions) the environment makes.
MaxWrites == 2

\* ------------------------------------------------------- program constants
\* SystemTime::UNIX_EPOCH, the initial value of previous_mtime, as a count of
\* timestamp granules since the epoch.
UNIX_EPOCH == 0
\* The version a watch channel (and the receiver made with it) starts with.
InitialVersion == 0
\* Exit status of std::process::exit(1) and of main returning Err.
ExitFailure == 1
\* Exit status of a panic in main (Server::bind panics when it cannot bind).
PanicExit == 101

\* ------------------------------------------------------------- environment
\* A file content that is not valid UTF-8 (read_to_string fails on it).
NotUtf8 == "<bytes that are not UTF-8>"
\* The markdown documents the environment writes.
Markdowns == {"", "# Hello"}
Contents == Markdowns \cup {NotUtf8}
\* Modification times are counted in granules of the file system's clock.
\* A write stamps the file with the current time, which is after the epoch
\* and never goes back; FirstGranule is the earliest such time. From before
\* the run a file may carry any timestamp, the epoch included.
FirstGranule == UNIX_EPOCH + 1
InitMtimes == {UNIX_EPOCH, FirstGranule}

Handlers == 1..MaxHandlers

VARIABLES
    \* the process
    proc,            \* "starting" | "spawned" | "serving" | "exited", and
                     \* "returning" | "panicking": main has ended, the
                     \* runtime shuts down
    exitCode,        \* 0 while running, the exit status once exited
    log,             \* the kinds of error written to stderr so far
    hostOk,          \* whether "{ip}:{port}" parses as a SocketAddr
    \* the watched file
    fileExists, fileContent, fileMtime,
    writes,          \* modifications made so far
    lastWriteFresh,  \* history: the last write changed the file's timestamp
                     \* (to one it never had: timestamps never go back)
    \* check_file
    dpc,             \* "idle" | "stat" | "read" | "publish" | "tick"
    previous_mtime, last_mtime,
    markdown,        \* render_markdown's local: the content read
    \* the watch channel
    chanValue, chanVersion,
    pubs,            \* history: the values published, in order
    \* handle_websocket, per connection slot
    hpc,             \* "none" | "changed" | "borrow" | "send"
    seen,            \* the receiver's version
    html,            \* the local html: [text, idx] (idx: which publish it is)
    open,            \* the client's end of the connection is open
    lastSent,        \* the last message delivered to the client
    late,            \* history: the client connected after the first publish
    \* history of the file's contents
    live,            \* the contents that were the file's when a poll read it
    skipped          \* the contents overwritten, since the last tick,
                     \* that no poll has ever read

procVars == <<proc, exitCode, log, hostOk>>
fileVars == <<fileExists, fileContent, fileMtime, writes, lastWriteFresh>>
detVars == <<dpc, previous_mtime, last_mtime, markdown>>
chanVars == <<chanValue, chanVersion, pubs>>
handlerVars == <<hpc, seen, html, open, lastSent, late>>
histVars == <<live, skipped>>
vars == <<procVars, fileVars, detVars, chanVars, handlerVars, histVars>>

NoMsg == [text |-> "", idx |-> 0]

\* pulldown_cmark::Parser + html::push_html on the documents of Markdowns.
Render(md) ==
    CASE md = "" -> ""
      [] md = "# Hello" -> "<h1>Hello</h1>\n"
      [] md = "Hello" -> "<p>Hello</p>\n"

Running == proc \in {"spawned", "serving"}

\* main has ended after the spawn, by a returned Err or by a panic: its
\* locals are dropped, the router and its receiver among them, and the
\* runtime shuts down, which waits for the poll the detector may be in.
Stopping == proc \in {"returning", "panicking"}

\* The detector's task takes steps: while main runs, and as long as the
\* shutdown of the runtime waits for it.
DetectorRuns == Running \/ Stopping

\* -------------------------------------------------------------------- Init
Init ==
    /\ proc = "starting"
    /\ exitCode = 0
    /\ log = {}
    /\ hostOk \in BOOLEAN
    /\ fileExists \in BOOLEAN
    /\ fileContent \in Markdowns
    /\ fileMtime \in InitMtimes
    /\ writes = 0
    /\ lastWriteFresh = FALSE
    /\ dpc = "idle"
    /\ previous_mtime = UNIX_EPOCH
    /\ last_mtime = UNIX_EPOCH
    /\ markdown = ""
    /\ chanValue = ""
    /\ chanVersion = InitialVersion
    /\ pubs = <<>>
    /\ hpc = [h \in Handlers |-> "none"]
    /\ seen = [h \in Handlers |-> InitialVersion]
    /\ html = [h \in Handlers |-> NoMsg]
    /\ open = [h \in Handlers |-> FALSE]
    /\ lastSent = [h \in Handlers |-> NoMsg]
    /\ late = [h \in Handlers |-> FALSE]
    /\ live = {}
    /\ skipped = {}

\* ------------------------------------------------------------- the file
\* The environment writes the file: new content, and the modification time
\* of the granule the write falls in, which is the file's current one (two
\* writes within one granule) or a later one.
WriteFile(c, m) ==
    /\ writes < MaxWrites
    /\ m >= FirstGranule
    /\ fileExists' = TRUE
    /\ fileContent' = c
    /\ fileMtime' = m
    /\ writes' = writes + 1
    /\ lastWriteFresh' = (m # fileMtime)
    /\ skipped' = IF fileExists /\ fileContent \in Markdowns \ live
                  THEN skipped \cup {fileContent} ELSE skipped
    /\ UNCHANGED live
    /\ UNCHANGED <<procVars, detVars, chanVars, handlerVars>>

\* The environment deletes the file.
DeleteFile ==
    /\ writes < MaxWrites
    /\ fileExists
    /\ fileExists' = FALSE
    /\ writes' = writes + 1
    /\ UNCHANGED <<fileContent, fileMtime, lastWriteFresh>>
    /\ UNCHANGED <<procVars, detVars, chanVars, handlerVars>>
    /\ UNCHANGED histVars

\* ----------------------------------------------------------------- main
\* main returns Err: the error is printed and the process exits with 1.
\* (A variant: main returns Ok(()) and the process exits with 0.)
MainReturnedOk(kind) ==
    /\ proc' = "exited"
    /\ exitCode' = 0
    /\ UNCHANGED log
MainFailed(kind) ==
    /\ proc' = "exited"
    /\ exitCode' = ExitFailure
    /\ log' = log \cup {kind}

\* main up to task::spawn: parse the address, test the path, make the
\* channel, spawn check_file.
MainValidate ==
    /\ proc = "starting"
    /\ IF ~hostOk THEN
            /\ MainFailed("could not parse ip/port")
            /\ UNCHANGED dpc
       ELSE IF ~fileExists THEN
            /\ MainFailed("file does not exist")
            /\ UNCHANGED dpc
       ELSE
            /\ proc' = "spawned"
            /\ dpc' = "stat"
            /\ UNCHANGED <<exitCode, log>>
    /\ UNCHANGED <<hostOk, previous_mtime, last_mtime, markdown>>
    /\ UNCHANGED <<fileVars, chanVars, handlerVars>>
    /\ UNCHANGED histVars

\* What the start of the browser and of the server may come to.
ServeOutcomes == {"ok", "no xdg-open", "cannot bind"}

\* main after the spawn: build the router, start xdg-open (main returns Err
\* when that fails), bind the address (a panic when that fails, its message
\* printed at once) and serve. When main ends, the process does not yet:
\* the runtime shuts down first.
MainServe(outcome) ==
    /\ proc = "spawned"
    /\ CASE outcome = "ok" ->
            /\ proc' = "serving"
            /\ UNCHANGED <<exitCode, log>>
         [] outcome = "no xdg-open" ->
            /\ proc' = "returning"
            /\ UNCHANGED <<exitCode, log>>
         [] outcome = "cannot bind" ->
            /\ proc' = "panicking"
            /\ log' = log \cup {"panic"}
            /\ UNCHANGED exitCode
    /\ UNCHANGED <<hostOk, fileVars, detVars, chanVars, handlerVars>>
    /\ UNCHANGED histVars

\* The shutdown of the runtime is over: the detector's task was not in a
\* poll, or it has come to an interval.tick().await that is not yet due,
\* where the task is dropped. The process ends as main did: the returned Err is printed and
\* the status is 1, or the status is that of a panic.
MainExit ==
    /\ Stopping
    /\ dpc \in {"stat", "tick"}
    /\ IF proc = "returning"
       THEN MainFailed("could not start xdg-open")
       ELSE /\ proc' = "exited"
            /\ exitCode' = PanicExit
            /\ UNCHANGED log
    /\ UNCHANGED <<hostOk, fileVars, detVars, chanVars, handlerVars>>
    /\ UNCHANGED histVars

\* ----------------------------------------------------------- check_file
\* The task of main's spawn: check_file returned Err, which is printed, and
\* std::process::exit(1) ends the process, every task with it.
\* (A variant that prints the error and lets the process run.)
CheckFileLogged(kind) ==
    /\ log' = log \cup {kind}
    /\ UNCHANGED <<proc, exitCode>>
\* check_file returned Err.
CheckFileFailed(kind) ==
    /\ proc' = "exited"
    /\ exitCode' = ExitFailure
    /\ log' = log \cup {kind}

\* The timestamp check_file remembers after a render: the one it read
\* before the render. (A variant: the file's timestamp after the render.)
MtimeAfterRender == fileMtime
MtimeToRemember == last_mtime

\* A Ref from borrow() is a read guard on the channel's value. Handler h
\* drops it at the end of the statement that clones the value, so it is
\* held across no await. (A variant: a Ref kept until the send is over.)
RefHeldAcrossSend(h) == hpc[h] = "send"
RefHeld(h) == FALSE

\* The receiver made with the channel is a local of main, moved into the
\* router: it lives until main ends.
RouterAlive == Running

\* The receivers alive: the router's own and one per handler.
RxCount ==
    (IF RouterAlive THEN 1 ELSE 0)
        + Cardinality({h \in Handlers : hpc[h] \notin {"none", "done"}})

\* if previous_mtime != last_mtime, for the timestamp m the poll has read.
\* (A variant: every poll renders.)
PollAlwaysRenders(m) == TRUE
MtimeChanged(m) == previous_mtime # m

\* metadata(file_path)?.modified()? and the comparison with previous_mtime.
DetStat ==
    /\ DetectorRuns
    /\ dpc = "stat"
    /\ IF ~fileExists THEN
            /\ CheckFileFailed("check_file")
            /\ UNCHANGED <<dpc, last_mtime>>
       ELSE
            /\ last_mtime' = fileMtime
            /\ dpc' = IF MtimeChanged(fileMtime) THEN "read" ELSE "tick"
            /\ UNCHANGED <<proc, exitCode, log>>
    /\ UNCHANGED <<hostOk, previous_mtime, markdown>>
    /\ UNCHANGED <<fileVars, chanVars, handlerVars>>
    /\ UNCHANGED histVars

\* What read_to_string gives render_markdown: the content the file has at
\* the time of the read. (A variant: a content the detector has missed, as
\* a watcher that is told of every write would render it.)
ContentMissed ==
    IF skipped \cap Markdowns # {}
    THEN CHOOSE c \in skipped \cap Markdowns : TRUE
    ELSE fileContent
ContentRead == fileContent

\* render_markdown: File::open and read_to_string.
DetRead ==
    /\ DetectorRuns
    /\ dpc = "read"
    /\ IF ~fileExists \/ fileContent = NotUtf8 THEN
            /\ CheckFileFailed("check_file")
            /\ UNCHANGED <<dpc, markdown, live>>
       ELSE
            /\ markdown' = ContentRead
            /\ live' = live \cup {fileContent}
            /\ dpc' = "publish"
            /\ UNCHANGED <<proc, exitCode, log>>
    /\ UNCHANGED skipped
    /\ UNCHANGED <<hostOk, previous_mtime, last_mtime>>
    /\ UNCHANGED <<fileVars, chanVars, handlerVars>>

\* render_markdown: convert and chan_tx.send, which takes the write lock,
\* fails when no receiver is left ("channel closed"), and otherwise replaces the value and
\* increments the version; then previous_mtime = last_mtime.
DetPublish ==
    /\ DetectorRuns
    /\ dpc = "publish"
    /\ ~ \E h \in Handlers : RefHeld(h)
    /\ IF RxCount = 0 THEN
            /\ CheckFileFailed("channel closed")
            /\ UNCHANGED <<dpc, previous_mtime, last_mtime, markdown, chanVars>>
       ELSE
            /\ chanValue' = Render(markdown)
            /\ chanVersion' = chanVersion + 1
            /\ pubs' = Append(pubs, Render(markdown))
            /\ previous_mtime' = MtimeToRemember
            /\ last_mtime' = UNIX_EPOCH
            /\ markdown' = ""
            /\ dpc' = "tick"
            /\ UNCHANGED <<proc, exitCode, log>>
    /\ UNCHANGED <<hostOk, fileVars, handlerVars>>
    /\ UNCHANGED histVars

\* interval.tick().await, then the next round of the loop. A tick that is
\* due completes without the task giving up its thread, also while the
\* runtime shuts down: the poll the shutdown waits for then goes on with
\* the next round.
DetTick ==
    /\ DetectorRuns
    /\ dpc = "tick"
    /\ dpc' = "stat"
    /\ last_mtime' = UNIX_EPOCH
    /\ UNCHANGED <<previous_mtime, markdown>>
    /\ UNCHANGED <<procVars, fileVars, chanVars, handlerVars>>
    /\ skipped' = {}
    /\ UNCHANGED live

DetectorStep == DetStat \/ DetRead \/ DetPublish \/ DetTick

\* ------------------------------------------------------ handle_websocket
\* The router keeps the receiver made with the channel in an Extension and
\* clones it for every request. Nothing ever calls changed() or
\* borrow_and_update() on it, so every clone starts at the version the
\* channel was created with. (A variant: a receiver that is up to date.)
\* (Another: a receiver that has not seen the value the channel was made
\* with.)
RouterRxCurrent == chanVersion
RouterRxUnseen == InitialVersion - 1
RouterRxVersion == InitialVersion

\* websocket_route: a client connects, the upgrade succeeds and
\* handle_websocket starts with a clone of the router's receiver.
Connect(h) ==
    /\ proc = "serving"
    /\ hpc[h] = "none"
    /\ \A g \in Handlers : g < h => hpc[g] # "none"
    /\ hpc' = [hpc EXCEPT ![h] = "changed"]
    /\ seen' = [seen EXCEPT ![h] = RouterRxVersion]
    /\ open' = [open EXCEPT ![h] = TRUE]
    /\ late' = [late EXCEPT ![h] = (pubs # <<>>)]
    /\ UNCHANGED <<html, lastSent>>
    /\ UNCHANGED <<procVars, fileVars, detVars, chanVars>>
    /\ UNCHANGED histVars

\* The client closes its connection, or the connection breaks: from then on
\* a send on it fails.
Disconnect(h) ==
    /\ hpc[h] # "none"
    /\ open[h]
    /\ open' = [open EXCEPT ![h] = FALSE]
    /\ UNCHANGED <<hpc, seen, html, lastSent, late>>
    /\ UNCHANGED <<procVars, fileVars, detVars, chanVars>>
    /\ UNCHANGED histVars

\* The sender lives in the task of main's spawn, which never returns: it
\* either loops or ends the process. changed() therefore never returns Err
\* while the process runs.
SenderDropped == FALSE

\* chan_rx.changed().await: returns Ok once the channel's version differs
\* from the receiver's, and marks that version seen; returns Err, which ends
\* the loop, when the sender is gone; waits otherwise.
\* (A variant of the test: the version is the one after the receiver's.)
VersionIsNext(h) == chanVersion = seen[h] + 1
VersionChanged(h) == chanVersion # seen[h]

HandlerChanged(h) ==
    /\ Running
    /\ hpc[h] = "changed"
    /\ IF VersionChanged(h) THEN
            /\ seen' = [seen EXCEPT ![h] = chanVersion]
            /\ hpc' = [hpc EXCEPT ![h] = "borrow"]
       ELSE
            /\ SenderDropped
            /\ hpc' = [hpc EXCEPT ![h] = "done"]
            /\ UNCHANGED seen
    /\ UNCHANGED <<html, open, lastSent, late>>
    /\ UNCHANGED <<procVars, fileVars, detVars, chanVars>>
    /\ UNCHANGED histVars

\* What borrow() reads: the channel's value at the time of the call, here
\* with its place in the order of publishes. (A variant: a receiver that
\* has seen the latest version reads the first value again.)
BorrowedStale(h) ==
    IF seen[h] = chanVersion
    THEN [text |-> pubs[1], idx |-> 1]
    ELSE [text |-> chanValue, idx |-> Len(pubs)]
Borrowed(h) == [text |-> chanValue, idx |-> Len(pubs)]

\* let html = chan_rx.borrow().clone();
HandlerBorrow(h) ==
    /\ Running
    /\ hpc[h] = "borrow"
    /\ html' = [html EXCEPT ![h] = Borrowed(h)]
    /\ hpc' = [hpc EXCEPT ![h] = "send"]
    /\ UNCHANGED <<seen, open, lastSent, late>>
    /\ UNCHANGED <<procVars, fileVars, detVars, chanVars>>
    /\ UNCHANGED histVars

\* ws.send(..) returned Err: the error is printed. Nothing else happens.
\* (A variant: the error ends the process.)
SendFailedFatal(h) ==
    /\ proc' = "exited"
    /\ exitCode' = ExitFailure
    /\ log' = log \cup {"ws_send"}
SendFailed(h) ==
    /\ log' = log \cup {"ws_send"}
    /\ UNCHANGED <<proc, exitCode>>

\* Where the loop of handle_websocket goes after a send, failed or not: the
\* body has no break and no return, so back to changed().
AfterSend(h, ok) == "changed"

\* ws.send(Message::Text(html)).await: delivers the message when the
\* client's end is open, and fails otherwise. html is moved into the
\* message and is gone at the end of the loop's body.
HandlerSend(h) ==
    /\ Running
    /\ hpc[h] = "send"
    /\ IF open[h] THEN
            /\ lastSent' = [lastSent EXCEPT ![h] = html[h]]
            /\ UNCHANGED <<proc, exitCode, log>>
       ELSE
            /\ SendFailed(h)
            /\ UNCHANGED lastSent
    /\ hpc' = [hpc EXCEPT ![h] = AfterSend(h, open[h])]
    /\ html' = [html EXCEPT ![h] = NoMsg]
    /\ UNCHANGED <<hostOk, seen, open, late>>
    /\ UNCHANGED <<fileVars, detVars, chanVars>>
    /\ UNCHANGED histVars

HandlerStep(h) == HandlerChanged(h) \/ HandlerBorrow(h) \/ HandlerSend(h)

\* ----------------------------------------------------- the specifications
FileEnvironment ==
    \/ \E c \in Contents, m \in {fileMtime, fileMtime + 1} : WriteFile(c, m)
    \/ DeleteFile

\* The whole program and its environment.
Next ==
    \/ FileEnvironment
    \/ MainValidate
    \/ \E o \in ServeOutcomes : MainServe(o)
    \/ MainExit
    \/ DetStat
    \/ DetRead
    \/ DetPublish
    \/ DetTick
    \/ \E h \in Handlers : Connect(h)
    \/ \E h \in Handlers : Disconnect(h)
    \/ \E h \in Handlers : HandlerChanged(h)
    \/ \E h \in Handlers : HandlerBorrow(h)
    \/ \E h \in Handlers : HandlerSend(h)

Spec == Init /\ [][Next]_vars

\* The program while no client connects: the file, main and the detector.
DetectorNext ==
    \/ FileEnvironment
    \/ MainValidate
    \/ \E o \in ServeOutcomes : MainServe(o)
    \/ MainExit
    \/ DetStat
    \/ DetRead
    \/ DetPublish
    \/ DetTick

DetectorSpec == Init /\ [][DetectorNext]_vars

\* The program while a single client connects.
ClientNext ==
    \/ FileEnvironment
    \/ MainValidate
    \/ \E o \in ServeOutcomes : MainServe(o)
    \/ MainExit
    \/ DetStat
    \/ DetRead
    \/ DetPublish
    \/ DetTick
    \/ Connect(1)
    \/ Disconnect(1)
    \/ HandlerChanged(1)
    \/ HandlerBorrow(1)
    \/ HandlerSend(1)

ClientSpec == Init /\ [][ClientNext]_vars

\* The tokio runtime schedules every task that can run: main, the detector
\* and each handler take their next step when it stays possible. Nothing is
\* assumed of the environment.
MainFairness ==
    /\ WF_vars(MainValidate)
    /\ WF_vars(\E o \in ServeOutcomes : MainServe(o))
    /\ WF_vars(MainExit)
    /\ WF_vars(DetectorStep)

FairSpec == Spec /\ MainFairness /\ \A h \in Handlers : WF_vars(HandlerStep(h))

DetectorFairSpec == DetectorSpec /\ MainFairness

ClientFairSpec == ClientSpec /\ MainFairness /\ WF_vars(HandlerStep(1))

\* ------------------------------------------------------------- the claims
Connected(h) == hpc[h] \notin {"none", "done"}
Latest == [text |-> chanValue, idx |-> Len(pubs)]
ShowsFile == fileContent \in Markdowns /\ chanValue = Render(fileContent)

\* C1, as stated: after the last write, and while the detector keeps
\* running, the channel's value eventually is and stays the rendering of the
\* file's content.
C1Original == <>[]((Running /\ writes > 0) => ShowsFile)

\* C1, amended: the same, for a last write that gave the file a
\* modification time it did not have before, also when that write lands
\* between the detector's read of the time and its read of the content.
C1Amended == <>[]((Running /\ writes > 0 /\ lastWriteFresh) => ShowsFile)

\* A write landed after the detector read the time and before it read the
\* content: the detector has published the new content under the old time.
C1Witness ==
    /\ Running /\ dpc = "tick"
    /\ writes = 1 /\ lastWriteFresh
    /\ previous_mtime # fileMtime
    /\ fileContent = "# Hello"
    /\ pubs = <<Render("# Hello")>>

\* C2: once the publishes have ended, every handler whose client is still
\* connected has, as the last message it sent, the final published value.
C2Theorem ==
    <>[](proc = "serving" =>
            \A h \in Handlers :
                (Connected(h) /\ open[h] /\ pubs # <<>>) => lastSent[h] = Latest)

\* Two connected clients have both received the second published value.
C2Witness ==
    /\ proc = "serving" /\ Len(pubs) >= 2
    /\ \A h \in Handlers : Connected(h) /\ open[h] /\ lastSent[h] = Latest

\* C3: what a handler sends follows the order of the publishes: no message
\* is of an earlier publish than the message sent before it.
C3Theorem == [][\A h \in Handlers : lastSent'[h].idx >= lastSent[h].idx]_vars

\* A handler that has sent one value is about to send a later one.
C3Witness ==
    \E h \in Handlers :
        /\ hpc[h] = "send" /\ open[h]
        /\ lastSent[h].idx >= 1 /\ html[h].idx > lastSent[h].idx

\* C4, as stated: on a file that exists, is readable and is never modified,
\* the detector has published exactly once when its first poll is over,
\* and at the end of every later poll, whatever the file's timestamp.
C4Claim == (Running /\ writes = 0 /\ dpc = "tick") => Len(pubs) = 1

\* C5, as stated: a failed send is logged and ends the handler's loop.
C5Claim ==
    [][\A h \in Handlers :
          (HandlerSend(h) /\ ~open[h]) =>
              ("ws_send" \in log' /\ hpc'[h] = "done")]_vars

\* C6, as stated, for a client that had received a value: once the client
\* has closed its connection, its handler is eventually released, whether
\* or not another value is published.
C6Claim ==
    \A h \in Handlers :
        (Running /\ Connected(h) /\ ~open[h] /\ lastSent[h].idx >= 1)
            ~> (~Running \/ ~Connected(h))

\* C7: a client that connects when a value has already been published
\* eventually receives the current value, with no further change of the
\* file, unless it disconnects or the process ends first.
C7Theorem ==
    \A h \in Handlers :
        (proc = "serving" /\ Connected(h) /\ late[h] /\ open[h])
            ~> (lastSent[h] = Latest \/ ~open[h] \/ ~Running)

\* A client that connected after the only publish, of a file that was never
\* modified, has received the published value.
C7Witness ==
    \E h \in Handlers :
        /\ proc = "serving" /\ Connected(h) /\ late[h] /\ open[h]
        /\ writes = 0 /\ Len(pubs) = 1
        /\ lastSent[h] = Latest

\* C8: a poll that finds the file missing, or its content unreadable, logs
\* the error and ends the process with status 1 without publishing; and
\* once the process has ended nothing of it changes anymore: no poll, no
\* publish, no step of a handler.
C8Theorem ==
    [][/\ (((DetStat \/ DetRead) /\ ~fileExists)
            \/ (DetRead /\ fileContent = NotUtf8))
          => /\ proc' = "exited" /\ exitCode' = ExitFailure
             /\ "check_file" \in log'
             /\ UNCHANGED chanVars
       /\ proc = "exited"
          => UNCHANGED <<procVars, detVars, chanVars, hpc, seen, html, lastSent>>]_vars

\* The process has ended on a deleted file while a client was connected
\* and its handler was waiting for the next value.
C8Witness ==
    /\ proc = "exited" /\ exitCode = ExitFailure /\ "check_file" \in log
    /\ ~fileExists
    /\ \E h \in Handlers : hpc[h] = "changed" /\ open[h] /\ lastSent[h].idx >= 1

\* C9: a failed send of one handler changes nothing of the channel, of the
\* detector, of the process's state or of any other handler.
C9Theorem ==
    [][\A h \in Handlers :
          (HandlerSend(h) /\ ~open[h]) =>
              /\ UNCHANGED <<chanVars, detVars, fileVars>>
              /\ UNCHANGED <<proc, exitCode>>
              /\ \A g \in Handlers \ {h} :
                    /\ hpc'[g] = hpc[g] /\ seen'[g] = seen[g]
                    /\ html'[g] = html[g] /\ open'[g] = open[g]
                    /\ lastSent'[g] = lastSent[g]]_vars

\* A send of one handler has failed; the process runs, and another client
\* is connected and has received a value.
C9Witness ==
    /\ "ws_send" \in log /\ Running
    /\ \E h \in Handlers, g \in Handlers :
        /\ Connected(h) /\ ~open[h]
        /\ Connected(g) /\ open[g] /\ lastSent[g].idx >= 1

\* C10: whenever the detector is about to publish, it can, whatever the
\* handlers are doing; and the channel holds the last value published and
\* nothing else.
C10Theorem ==
    /\ (Running /\ dpc = "publish") => ENABLED DetPublish
    /\ chanVersion = InitialVersion + Len(pubs)
    /\ chanValue = IF pubs = <<>> THEN "" ELSE pubs[Len(pubs)]

\* The detector is about to publish its third value while a handler is
\* still in the send of the first and has not observed the second.
C10Witness ==
    /\ Running /\ dpc = "publish" /\ Len(pubs) = 2
    /\ \E h \in Handlers :
        /\ hpc[h] = "send" /\ open[h]
        /\ html[h].idx = 1 /\ seen[h] = 1

\* C11, as stated: a handler sends the value of one publish to its client
\* at most once: no message it delivers is of the same publish as the
\* message it delivered before.
C11Claim ==
    [][\A h \in Handlers :
          (HandlerSend(h) /\ open[h]) => html[h].idx # lastSent[h].idx]_vars

\* C12, as stated: a poll that fails to convert the file's content logs the
\* error and goes on: the process keeps running, the channel keeps the
\* value published before, previous_mtime becomes the timestamp the poll
\* read, and the loop goes to its next tick.
C12Claim ==
    [][(DetRead /\ fileExists /\ fileContent = NotUtf8) =>
          /\ "check_file" \in log'
          /\ proc' = proc
          /\ UNCHANGED chanVars
          /\ previous_mtime' = last_mtime
          /\ dpc' = "tick"]_vars

\* Nothing of the program has started: the detector was not spawned and has
\* polled nothing, nothing was published, and no connection was accepted.
NeverStarted ==
    /\ dpc = "idle"
    /\ previous_mtime = UNIX_EPOCH /\ last_mtime = UNIX_EPOCH
    /\ pubs = <<>> /\ chanVersion = InitialVersion /\ chanValue = ""
    /\ \A h \in Handlers : hpc[h] = "none" /\ lastSent[h] = NoMsg

\* C13: when the address does not parse or the file does not exist at
\* startup, main ends the process with a non-zero status before anything
\* has started, and nothing starts afterwards: no poll, no publish, no
\* accepted connection.
C13Theorem ==
    [][/\ (MainValidate /\ (~hostOk \/ ~fileExists))
          => (proc' = "exited" /\ exitCode' # 0 /\ NeverStarted')
       /\ (proc = "exited" /\ NeverStarted)
          => (proc' = "exited" /\ exitCode' = exitCode /\ NeverStarted')]_vars

\* main has ended on a missing file, and the file was created afterwards.
C13Witness ==
    /\ proc = "exited" /\ exitCode = ExitFailure
    /\ "file does not exist" \in log
    /\ fileExists /\ writes > 0
    /\ NeverStarted

\* C14: a poll that finds the file's timestamp equal to previous_mtime does
\* nothing: it goes to its tick without reading the file, the channel's
\* value and version and previous_mtime stay as they are, no handler is
\* woken or otherwise changed, and the tick that ends the poll changes
\* none of this either.
C14Theorem ==
    [][((DetStat /\ fileExists /\ fileMtime = previous_mtime) \/ DetTick) =>
          /\ dpc' = IF dpc = "stat" THEN "tick" ELSE "stat"
          /\ UNCHANGED <<chanValue, chanVersion, pubs>>
          /\ UNCHANGED <<previous_mtime, markdown>>
          /\ UNCHANGED <<proc, exitCode, log>>
          /\ UNCHANGED <<hpc, seen, html, lastSent>>
          /\ \A h \in Handlers : VersionChanged(h)' = VersionChanged(h)]_vars

\* A poll has found the timestamp of the last render again, while a handler
\* that has sent the published value waits for the next one.
C14Witness ==
    /\ Running /\ dpc = "tick"
    /\ last_mtime = previous_mtime /\ last_mtime = fileMtime
    /\ last_mtime # UNIX_EPOCH
    /\ pubs # <<>>
    /\ \E h \in Handlers :
        /\ hpc[h] = "changed" /\ open[h]
        /\ seen[h] = chanVersion /\ lastSent[h] = Latest

\* C15, as stated: the timestamp alone decides. A poll that finds a
\* timestamp other than previous_mtime goes on to read the file, whatever
\* its content; the content it reads is published, also when it renders to
\* the value the channel already holds; the publish is one new version and
\* makes the timestamp the poll found the one remembered; and nothing but
\* that step of the poll publishes.
C15Claim ==
    [][/\ (DetStat /\ fileExists /\ fileMtime # previous_mtime)
          => (dpc' = "read" /\ last_mtime' = fileMtime /\ UNCHANGED chanVars)
       /\ (DetRead /\ fileExists /\ fileContent \in Markdowns)
          => (dpc' = "publish" /\ markdown' = fileContent /\ UNCHANGED chanVars)
       /\ DetPublish
          => /\ pubs' = Append(pubs, Render(markdown))
             /\ chanValue' = Render(markdown)
             /\ chanVersion' = chanVersion + 1
             /\ previous_mtime' = last_mtime
             /\ dpc' = "tick"
       /\ (pubs' # pubs \/ chanVersion' # chanVersion \/ chanValue' # chanValue)
          => DetPublish]_vars

\* The value v is the rendering of a content that the file had at the time
\* of one of the detector's reads.
OfContentRead(v) == \E c \in live : v = Render(c)

\* C16: a poll publishes at most once, the content its read found in the
\* file, however many times the file was written since the poll before;
\* every value published, held by a handler or sent to a client is of a
\* content that a read found, so a content that was overwritten before any
\* read is never published and never sent.
C16Theorem ==
    [][/\ (pubs' # pubs) =>
            /\ dpc = "publish" /\ dpc' = "tick"
            /\ markdown \in live
            /\ pubs' = Append(pubs, Render(markdown))
       /\ (DetRead /\ dpc' = "publish") => markdown' = fileContent
       /\ \A i \in 1..Len(pubs') : OfContentRead(pubs[i])'
       /\ \A c \in (skipped' \ live') \cap Markdowns :
            /\ \A i \in 1..Len(pubs') : pubs'[i] # Render(c)
            /\ \A h \in Handlers :
                /\ lastSent'[h].idx >= 1 => lastSent'[h].text # Render(c)
                /\ html'[h].idx >= 1 => html'[h].text # Render(c)]_vars

\* After the first publish the file was written twice before the next poll
\* read it, first with a heading and then empty again: the poll has
\* published the empty document once more, the client has received it,
\* and the heading was published to nobody.
C16Witness ==
    /\ Running /\ dpc = "tick"
    /\ writes = 2 /\ fileContent = ""
    /\ skipped = {"# Hello"} /\ live = {""}
    /\ pubs = <<Render(""), Render("")>>
    /\ \E h \in Handlers : open[h] /\ lastSent[h] = Latest

\* C17, as stated: a publish never fails for want of a receiver: as long
\* as the detector takes steps there is at least the router's receiver, so
\* every publish succeeds and leaves the process as it is, however many
\* clients are connected, and the process never ends on a closed channel.
C17Claim ==
    [][/\ DetectorRuns => RxCount >= 1
       /\ DetPublish =>
            /\ proc' = proc /\ log' = log
            /\ chanVersion' = chanVersion + 1
            /\ dpc' = "tick"
       /\ "channel closed" \notin log']_vars

\* The message m is one of the values published.
Published(m) == m.idx \in 1..Len(pubs) /\ m.text = pubs[m.idx]

\* C18: what a handler is about to send, and what it has sent, is a value
\* that was published; as long as nothing was published every handler
\* waits in changed() and has sent nothing, so the value the channel was
\* made with goes to no client.
C18Theorem ==
    \A h \in Handlers :
        /\ pubs = <<>> =>
            /\ hpc[h] \in {"none", "changed"}
            /\ html[h] = NoMsg /\ lastSent[h] = NoMsg
        /\ hpc[h] = "send" => Published(html[h])
        /\ lastSent[h] # NoMsg => Published(lastSent[h])

\* A client that connected before the first publish has received the first
\* published value as its first message.
C18Witness ==
    \E h \in Handlers :
        /\ Connected(h) /\ open[h] /\ ~late[h]
        /\ Len(pubs) = 1
        /\ lastSent[h] = [text |-> pubs[1], idx |-> 1]

====
